---- MODULE Spec2Model ----
(***************************************************************************)
(* Transaction-graph construction (data_gen.py, data_gen_enhanced.py) and  *)
(* topology queries (agent_explainer.py) of the SentinAL fraud detector.   *)
(*                                                                         *)
(* The graph is a networkx DiGraph: per node an attribute dictionary, per  *)
(* node an insertion-ordered adjacency dictionary keyed by the successor,  *)
(* so add_edge(u, v, ...) on a pair that is already present updates the    *)
(* attributes of the one edge u -> v and keeps its position.               *)
(*                                                                         *)
(* Money is counted in cents (the code rounds amounts to two decimals),    *)
(* raw random draws of amounts in mills (1/1000 of a unit).  A timestamp   *)
(* datetime.now() + timedelta(...) is the pair <<now, offset in seconds>>, *)
(* where now is the ordinal of the generator call that read the clock.     *)
(***************************************************************************)
EXTENDS Integers, Sequences, FiniteSets, TLC

VARIABLES
    cls,              \* class of the generator object
    num_users,        \* self.num_users
    fraud_ring_size,  \* self.fraud_ring_size (FinancialGraphGenerator only)
    node_attr,        \* self.graph.nodes: node -> [is_fraud, fraud_pattern]
    adj,              \* self.graph adjacency: node -> sequence of out-edges
    fraud_users,      \* self.fraud_users (EnhancedFinancialGraphGenerator)
    calls,            \* number of pattern / traffic calls made so far
    budget,           \* number of such calls the caller's build sequence makes
    last,             \* the last call: operation, arguments, draws, result
    faults,           \* whether nx.simple_cycles can raise in this process
    fraud_probability,\* GraphQueryTool.fraud_scores['fraud_probability']
    token_blacklist,  \* auth.token_blacklist
    issued,           \* the tokens the API has handed to its clients
    utcnow,           \* datetime.utcnow(), in minutes
    audit_log,        \* logs/audit/audit.jsonl, line by line
    signed_log,       \* the same lines as log_event wrote them
    fallback_cache,   \* CacheManager.fallback_cache (redis_client is None)
    agent,            \* api.agent (module global)
    fraud_scores,     \* api.fraud_scores (module global)
    app_state         \* api.app.state: graph_data, fraud_agent, start_time

\* the state of the generator object
generator == <<cls, num_users, fraud_ring_size, node_attr, adj, fraud_users,
               calls, budget>>

\* module state of auth.py, audit_logger.py, cache_manager.py and api.py
auth == <<token_blacklist, issued, utcnow>>
audit == <<audit_log, signed_log>>
api == <<agent, fraud_scores, app_state>>

\* the state outside the generator and its graph
services == <<faults, fraud_probability, auth, audit, fallback_cache, api>>

vars == <<generator, last, services>>

graph == <<node_attr, adj>>

----------------------------------------------------------------------------
(* Bounds of the model *)

NumUsers == 3      \* accounts of a generator under pattern injection
PoolUsers == 2     \* accounts of a generator whose pool runs out
RingUsers == 4     \* accounts of a generator under ring injection
QueryUsers == 3    \* accounts of a generator whose graph is queried
NormalUsers == 3   \* accounts of a generator under normal traffic
TopologyUsers == 3 \* accounts of a generator of rings and rapid-fire bursts
ScenarioUsers == 5 \* accounts of a generator running the ring of main()
ScatterUsers == 5  \* accounts of a generator under scatter-gather injection
FanoutUsers == 4   \* accounts of a generator under fan-out
MaxCalls == 2      \* generator calls of one run after generate_user_features
MaxTargets == 1    \* largest num_targets / num_sources of a call
MaxCount == 2      \* largest num_transactions of a call
MaxK == 1          \* largest k of a k-hop query
ScenarioK == 2     \* largest k of a query on the ring of main()
MaxTicks == 1      \* token lifetimes the clock of the API can move on by
MaxLog == 2        \* lines of the audit log
MaxIssued == 4     \* tokens the API hands out
MaxEntries == 2    \* entries of the in-memory cache

(* Program constants *)

RingBaseAmount == 1000     \* base_amount of a ring, in units
FanoutBaseAmount == 5000   \* base_amount of a fan-out, in units
MainRingSize == 5          \* fraud_ring_size / ring_size of main()
ClampLow == 10             \* lower clamp of a normal amount, in units
ClampHigh == 5000          \* upper clamp of a normal amount, in units

Base == "FinancialGraphGenerator"
Enhanced == "EnhancedFinancialGraphGenerator"

NoAttr == "NoAttr"         \* an attribute key the dictionary does not hold
None == "None"             \* fraud_pattern=None
NoUser == -1               \* a user argument left at its default None

transaction_types == <<"payment", "transfer", "withdrawal">>

----------------------------------------------------------------------------
(* Helpers *)

Range(s) == {s[i] : i \in DOMAIN s}

Users == 0 .. (num_users - 1)

\* min / max as Python computes them on two numbers
Min2(a, b) == IF b < a THEN b ELSE a
Max2(a, b) == IF b > a THEN b ELSE a

RECURSIVE Pow(_, _)
Pow(b, e) == IF e = 0 THEN 1 ELSE b * Pow(b, e - 1)

\* random.sample(population, k): every sequence of k distinct members
Samples(S, k) ==
    {s \in [1 .. k -> S] : \A i, j \in 1 .. k : i # j => s[i] # s[j]}

\* [u for u in range(self.num_users) if u not in self.fraud_users]
available_users == {u \in Users : u \notin fraud_users}

Edge(to, amount, timestamp, ty, fe, pattern) ==
    [to |-> to, amount |-> amount, timestamp |-> timestamp,
     transaction_type |-> ty, is_fraud_edge |-> fe, pattern |-> pattern]

HasEdge(A, u, v) == \E i \in DOMAIN A[u] : A[u][i].to = v

\* a multigraph's add_edge: every call one more edge
add_edge_multi(A, u, e) == [A EXCEPT ![u] = Append(A[u], e)]

\* the pair already present taken out and put at the end
add_edge_moved(A, u, e) ==
    [A EXCEPT ![u] = Append(SelectSeq(A[u], LAMBDA x : x.to # e.to), e)]

\* DiGraph.add_edge(u, v, **attr): a new pair is appended to u's adjacency,
\* a pair already present has its attributes overwritten in place
add_edge(A, u, e) ==
    IF HasEdge(A, u, e.to)
    THEN [A EXCEPT ![u] = [i \in DOMAIN A[u] |->
                             IF A[u][i].to = e.to THEN e ELSE A[u][i]]]
    ELSE [A EXCEPT ![u] = Append(A[u], e)]

\* graph.number_of_edges()
number_of_edges(A) ==
    LET RECURSIVE Sum(_)
        Sum(S) == IF S = {} THEN 0
                  ELSE LET u == CHOOSE x \in S : TRUE
                       IN Len(A[u]) + Sum(S \ {u})
    IN Sum(DOMAIN A)

\* the edges of the graph as (from, edge) pairs
EdgeSet(A) == UNION {{<<u, A[u][i]>> : i \in DOMAIN A[u]} : u \in DOMAIN A}

\* the record of a call: what was asked, what was drawn, what came back.
\* marked is the set of nodes whose is_fraud the call wrote; neighbors and
\* edges are the subgraph a query extracted, cycles the cycles it found and
\* report the text it returned, line by line.
Call(op, args, draws, ret, marked, err) ==
    [op |-> op, args |-> args, draws |-> draws, ret |-> ret,
     marked |-> marked, err |-> err, neighbors |-> {}, edges |-> << >>,
     cycles |-> << >>, report |-> << >>, raised |-> FALSE,
     status |-> 0, detail |-> "", user |-> "None"]

----------------------------------------------------------------------------
(* Construction *)

\* __init__: an empty DiGraph, no fraud users
Constructed(c, n, r, b) ==
    /\ cls = c
    /\ num_users = n
    /\ fraud_ring_size = r
    /\ node_attr = << >>
    /\ adj = << >>
    /\ fraud_users = {}
    /\ calls = 0
    /\ budget = b
    /\ last = Call("__init__", << >>, << >>, << >>, {}, "")

\* generate_user_features: one node per user id, is_fraud=0 and (enhanced
\* generator only) fraud_pattern=None.  account_age_days and
\* risk_score_initial are random and read by no operation modelled here.
generate_user_features ==
    /\ DOMAIN node_attr = {}
    /\ node_attr' = [u \in Users |->
                       [is_fraud |-> 0,
                        fraud_pattern |-> IF cls = Enhanced THEN None ELSE NoAttr]]
    /\ adj' = [u \in Users |-> << >>]
    /\ last' = Call("generate_user_features", << >>, << >>, << >>, {}, "")
    /\ UNCHANGED services
    /\ UNCHANGED <<cls, num_users, fraud_ring_size, fraud_users, calls, budget>>

----------------------------------------------------------------------------
(* Amounts *)

RECURSIVE GCD(_, _)
GCD(a, b) == IF b = 0 THEN a ELSE GCD(b, a % b)

\* round(x, 2) for x = num/den units, in cents.  The doubles the code rounds
\* lie on or just below the exact quotient (0.95 ** i for i >= 3 is below the
\* exact power: 1000 * 0.95 ** 3 is 857.3749999999999), so an exact tie
\* resolves downward.
round2(num, den) ==
    LET g == GCD(100, den)
        n == num * (100 \div g)
        d == den \div g
    IN IF 2 * (n % d) > d THEN (n \div d) + 1 ELSE n \div d

\* base_amount * (0.95 ** i) as the fraction base_amount * 19^i / 20^i,
\* in lowest terms
ring_value(i) ==
    LET g == GCD(RingBaseAmount, Pow(20, i))
    IN <<(RingBaseAmount \div g) * Pow(19, i), Pow(20, i) \div g>>

\* the decay applied once, whatever the step
ring_amount_flat(i) ==
    round2(ring_value(Min2(i, 1))[1], ring_value(Min2(i, 1))[2])

\* round(base_amount * (0.95 ** i), 2)
ring_amount(i) == round2(ring_value(i)[1], ring_value(i)[2])

\* the split cut off after the cents
fanout_amount_floor(num_targets) == (FanoutBaseAmount * 100) \div num_targets

\* round(base_amount / num_targets, 2)
fanout_amount(num_targets) == round2(FanoutBaseAmount, num_targets)

\* round(random.uniform(a, b), 2), a draw from [a, b]: no operation reads the
\* amount of a rapid-fire or scatter-gather edge, one value stands for the draw
uniform(a, b) == {a * 100}

----------------------------------------------------------------------------
(* Pattern injectors of EnhancedFinancialGraphGenerator *)

\* the ordinal of the call being made: its reading of datetime.now()
now == calls + 1

\* the ring closed on its last member instead of its first
ring_to_user_open(fu, i) == fu[IF i + 1 < Len(fu) THEN i + 2 ELSE i + 1]

\* to_user = fraud_users[(i + 1) % len(fraud_users)], lists counted from 1
ring_to_user(fu, i) == fu[((i + 1) % Len(fu)) + 1]

\* for i in range(len(fraud_users)): self.graph.add_edge(from_user, to_user, ...)
RECURSIVE ring_edges(_, _, _, _, _)
ring_edges(A, fu, i, t, pattern) ==
    IF i >= Len(fu) THEN A
    ELSE ring_edges(
             add_edge(A, fu[i + 1],
                      Edge(ring_to_user(fu, i), ring_amount(i),
                           <<t, 3600 * i>>, "transfer", 1, pattern)),
             fu, i + 1, t, pattern)

\* graph.nodes[u]['is_fraud'] = 1; graph.nodes[u]['fraud_pattern'] = pattern
mark(NA, S, pattern) ==
    [u \in DOMAIN NA |->
        IF u \in S THEN [is_fraud |-> 1, fraud_pattern |-> pattern] ELSE NA[u]]

Built == DOMAIN node_attr # {}

\* the refusal coming after the accounts were claimed
NotEnough_late(op, args) ==
    /\ last' = Call(op, args, << >>, << >>, {}, "not_enough_users")
    /\ node_attr' = mark(node_attr, available_users, "cyclic_ring")
    /\ fraud_users' = fraud_users \cup available_users
    /\ UNCHANGED adj

\* print("Not enough users ..."); return []
NotEnough(op, args) ==
    /\ last' = Call(op, args, << >>, << >>, {}, "not_enough_users")
    /\ UNCHANGED <<node_attr, adj, fraud_users>>

inject_cyclic_ring(ring_size) ==
    /\ cls = Enhanced /\ Built /\ calls < budget
    /\ calls' = calls + 1
    /\ UNCHANGED services
    /\ UNCHANGED <<cls, num_users, fraud_ring_size, budget>>
    /\ IF Cardinality(available_users) < ring_size
       THEN NotEnough("inject_cyclic_ring", <<ring_size>>)
       ELSE \E fu \in Samples(available_users, ring_size) :
              /\ node_attr' = mark(node_attr, Range(fu), "cyclic_ring")
              /\ fraud_users' = fraud_users \cup Range(fu)
              /\ adj' = ring_edges(adj, fu, 0, now, "cyclic_ring")
              /\ last' = Call("inject_cyclic_ring", <<ring_size>>, << >>,
                              fu, Range(fu), "")

\* the source (hub) of a call and the pool its other accounts are sampled
\* from: a user the injector picks is removed from the pool, a user the
\* caller supplies is used as given and the pool is left as it is
pick_user(user, pool) ==
    IF user = NoUser
    THEN {<<u, pool \ {u}>> : u \in pool}
    ELSE {<<user, pool>>}

RECURSIVE fanout_edges(_, _, _, _, _)
fanout_edges(A, source, targets, i, t) ==
    IF i >= Len(targets) THEN A
    ELSE fanout_edges(
             add_edge(A, source,
                      Edge(targets[i + 1], fanout_amount(Len(targets)),
                           <<t, 60 * (i * 5)>>, "transfer", 1, "fanout")),
             source, targets, i + 1, t)

inject_fanout_pattern(source_user, num_targets) ==
    /\ cls = Enhanced /\ Built /\ calls < budget
    /\ calls' = calls + 1
    /\ UNCHANGED services
    /\ UNCHANGED <<cls, num_users, fraud_ring_size, budget>>
    /\ IF Cardinality(available_users) < num_targets + 1
       THEN NotEnough("inject_fanout_pattern", <<source_user, num_targets>>)
       ELSE \E p \in pick_user(source_user, available_users) :
            \E targets \in Samples(p[2], num_targets) :
              /\ node_attr' = mark(node_attr, {p[1]}, "fanout_source")
              /\ fraud_users' = fraud_users \cup {p[1]}
              /\ adj' = fanout_edges(adj, p[1], targets, 0, now)
              /\ last' = Call("inject_fanout_pattern",
                              <<source_user, num_targets>>, << >>,
                              <<p[1]>> \o targets, {p[1]}, "")

\* the burst a minute apart
RECURSIVE rapidfire_edges_minutes(_, _, _, _, _)
rapidfire_edges_minutes(A, user_id, draws, i, t) ==
    IF i >= Len(draws) THEN A
    ELSE rapidfire_edges_minutes(
             add_edge(A, user_id,
                      Edge(draws[i + 1][1], draws[i + 1][2],
                           <<t, i * 60>>, "payment", 1, "rapidfire")),
             user_id, draws, i + 1, t)

\* for i in range(num_transactions): target = random.choice(...); add_edge
RECURSIVE rapidfire_edges(_, _, _, _, _)
rapidfire_edges(A, user_id, draws, i, t) ==
    IF i >= Len(draws) THEN A
    ELSE rapidfire_edges(
             add_edge(A, user_id,
                      Edge(draws[i + 1][1], draws[i + 1][2],
                           <<t, i * 3>>, "payment", 1, "rapidfire")),
             user_id, draws, i + 1, t)

inject_rapidfire_pattern(user_id, num_transactions) ==
    /\ cls = Enhanced /\ Built /\ calls < budget
    /\ calls' = calls + 1
    /\ UNCHANGED services
    /\ UNCHANGED <<cls, num_users, fraud_ring_size, budget>>
    /\ IF Cardinality(available_users) < 2
       THEN NotEnough("inject_rapidfire_pattern", <<user_id, num_transactions>>)
       ELSE \E u \in (IF user_id = NoUser THEN available_users ELSE {user_id}) :
            \E draws \in [1 .. num_transactions ->
                            (Users \ {u}) \X uniform(50, 200)] :
              /\ node_attr' = mark(node_attr, {u}, "rapidfire")
              /\ fraud_users' = fraud_users \cup {u}
              /\ adj' = rapidfire_edges(adj, u, draws, 0, now)
              /\ last' = Call("inject_rapidfire_pattern",
                              <<user_id, num_transactions>>, draws,
                              <<u>>, {u}, "")

\* Gather phase: for i, source in enumerate(sources): add_edge(source, hub)
RECURSIVE gather_edges(_, _, _, _, _, _)
gather_edges(A, hub, sources, amounts, i, t) ==
    IF i >= Len(sources) THEN A
    ELSE gather_edges(
             add_edge(A, sources[i + 1],
                      Edge(hub, amounts[i + 1], <<t, 3600 * i>>,
                           "transfer", 1, "scatter_gather_in")),
             hub, sources, amounts, i + 1, t)

\* the scatter phase stamped from the reference instant on, like the gather
\* phase
RECURSIVE scatter_edges_restart(_, _, _, _, _, _, _)
scatter_edges_restart(A, hub, targets, amounts, num_sources, i, t) ==
    IF i >= Len(targets) THEN A
    ELSE scatter_edges_restart(
             add_edge(A, hub,
                      Edge(targets[i + 1], amounts[i + 1], <<t, 3600 * i>>,
                           "transfer", 1, "scatter_gather_out")),
             hub, targets, amounts, num_sources, i + 1, t)

\* Scatter phase: for i, target in enumerate(targets): add_edge(hub, target)
RECURSIVE scatter_edges(_, _, _, _, _, _, _)
scatter_edges(A, hub, targets, amounts, num_sources, i, t) ==
    IF i >= Len(targets) THEN A
    ELSE scatter_edges(
             add_edge(A, hub,
                      Edge(targets[i + 1], amounts[i + 1],
                           <<t, 3600 * (num_sources + i)>>,
                           "transfer", 1, "scatter_gather_out")),
             hub, targets, amounts, num_sources, i + 1, t)

inject_scatter_gather_pattern(hub_user, num_sources, num_targets) ==
    /\ cls = Enhanced /\ Built /\ calls < budget
    /\ calls' = calls + 1
    /\ UNCHANGED services
    /\ UNCHANGED <<cls, num_users, fraud_ring_size, budget>>
    /\ IF Cardinality(available_users) < num_sources + num_targets + 1
       THEN NotEnough("inject_scatter_gather_pattern",
                      <<hub_user, num_sources, num_targets>>)
       ELSE \E p \in pick_user(hub_user, available_users) :
            \E sources \in Samples(p[2], num_sources) :
            \E targets \in Samples(p[2] \ Range(sources), num_targets) :
            \E ain \in [1 .. num_sources -> uniform(800, 1200)] :
            \E aout \in [1 .. num_targets -> uniform(900, 1100)] :
              /\ node_attr' = mark(node_attr, {p[1]}, "scatter_gather_hub")
              /\ fraud_users' = fraud_users \cup {p[1]}
              /\ adj' = scatter_edges(
                            gather_edges(adj, p[1], sources, ain, 0, now),
                            p[1], targets, aout, num_sources, 0, now)
              /\ last' = Call("inject_scatter_gather_pattern",
                              <<hub_user, num_sources, num_targets>>,
                              <<ain, aout>>,
                              sources \o <<p[1]>> \o targets, {p[1]}, "")

----------------------------------------------------------------------------
(* FinancialGraphGenerator.inject_fraud_ring *)

\* random.sample(range(self.num_users), self.fraud_ring_size) raises
\* ValueError before anything is written when the ring is larger than the
\* population.  main() and the tests inject the one ring of a generator
\* right after generate_user_features.
inject_fraud_ring ==
    /\ cls = Base /\ Built /\ calls = 0
    /\ calls' = calls + 1
    /\ UNCHANGED services
    /\ UNCHANGED <<cls, num_users, fraud_ring_size, fraud_users, budget>>
    /\ IF fraud_ring_size > num_users
       THEN /\ last' = Call("inject_fraud_ring", << >>, << >>, << >>, {},
                            "ValueError")
            /\ UNCHANGED <<node_attr, adj>>
       ELSE \E fu \in Samples(Users, fraud_ring_size) :
              /\ node_attr' = [u \in DOMAIN node_attr |->
                                 IF u \in Range(fu)
                                 THEN [node_attr[u] EXCEPT !.is_fraud = 1]
                                 ELSE node_attr[u]]
              /\ adj' = ring_edges(adj, fu, 0, now, NoAttr)
              /\ last' = Call("inject_fraud_ring", << >>, << >>, fu,
                              Range(fu), "")

----------------------------------------------------------------------------
(* generate_normal_transactions, the same code in both generators *)

\* what one iteration draws: the two endpoints and, unless they collide, the
\* log-normal amount (in mills), the transaction type and the hour offset
NotDrawn == [lognormal |-> 0, tx_type |-> NoAttr, hours |-> 0]

AttrDraws ==
    {[lognormal |-> 4,       tx_type |-> transaction_types[1], hours |-> 0],
     [lognormal |-> 123456,  tx_type |-> transaction_types[2], hours |-> 3],
     [lognormal |-> 7000001, tx_type |-> transaction_types[3], hours |-> 720]}

NormalDraws ==
    {d \in [from_user : Users, to_user : Users, attr : AttrDraws \cup {NotDrawn}] :
        (d.from_user = d.to_user) <=> (d.attr = NotDrawn)}

\* no draw skipped
skip_draw_never(d) == FALSE

\* if from_user == to_user: continue
skip_draw(d) == d.from_user = d.to_user

\* the amount clamped from above only
normal_amount_min_only(lognormal) == Min2(round2(lognormal, 1000), ClampHigh * 100)

\* amount = round(lognormal, 2); amount = max(10, min(amount, 5000))
normal_amount(lognormal) ==
    Max2(ClampLow * 100, Min2(round2(lognormal, 1000), ClampHigh * 100))

RECURSIVE normal_edges(_, _, _, _, _)
normal_edges(A, draws, i, t, pattern) ==
    IF i >= Len(draws) THEN A
    ELSE LET d == draws[i + 1]
         IN normal_edges(
                IF skip_draw(d) THEN A
                ELSE add_edge(A, d.from_user,
                              Edge(d.to_user, normal_amount(d.attr.lognormal),
                                   <<t, 3600 * d.attr.hours>>,
                                   d.attr.tx_type, 0, pattern)),
                draws, i + 1, t, pattern)

generate_normal_transactions(num_transactions) ==
    /\ Built /\ calls < budget
    /\ calls' = calls + 1
    /\ UNCHANGED services
    /\ UNCHANGED <<cls, num_users, fraud_ring_size, budget, node_attr, fraud_users>>
    /\ \E draws \in [1 .. num_transactions -> NormalDraws] :
         /\ adj' = normal_edges(adj, draws, 0, now,
                                IF cls = Enhanced THEN "normal" ELSE NoAttr)
         /\ last' = Call("generate_normal_transactions", <<num_transactions>>,
                         draws, << >>, {}, "")

----------------------------------------------------------------------------
(* GraphQueryTool.get_k_hop_subgraph, run on the generator's graph *)

successors(A, n) == {A[n][i].to : i \in DOMAIN A[n]}
predecessors(A, n) == {u \in DOMAIN A : HasEdge(A, u, n)}

\* one round whatever k
k_hop_one_round(A, neighbors, current_layer, k) ==
    neighbors \cup
        UNION {successors(A, n) \cup predecessors(A, n) : n \in current_layer}

\* the last layer returned in place of the accumulated set
RECURSIVE k_hop_frontier(_, _, _, _)
k_hop_frontier(A, neighbors, current_layer, k) ==
    IF k = 0 THEN current_layer
    ELSE k_hop_frontier(A, neighbors,
             UNION {successors(A, n) \cup predecessors(A, n) : n \in current_layer},
             k - 1)

\* outgoing edges only
RECURSIVE k_hop_successors(_, _, _, _)
k_hop_successors(A, neighbors, current_layer, k) ==
    IF k = 0 THEN neighbors
    ELSE k_hop_successors(A,
             neighbors \cup UNION {successors(A, n) : n \in current_layer},
             UNION {successors(A, n) : n \in current_layer}, k - 1)

\* the search along incoming transactions only
RECURSIVE k_hop_predecessors(_, _, _, _)
k_hop_predecessors(A, neighbors, current_layer, k) ==
    IF k = 0 THEN neighbors
    ELSE LET next_layer == UNION {predecessors(A, n) : n \in current_layer}
         IN k_hop_predecessors(A, neighbors \cup next_layer, next_layer, k - 1)

\* for _ in range(k): next_layer = successors and predecessors of the
\* current layer; neighbors.update(next_layer); current_layer = next_layer
RECURSIVE k_hop(_, _, _, _)
k_hop(A, neighbors, current_layer, k) ==
    IF k = 0 THEN neighbors
    ELSE LET next_layer ==
                 UNION {successors(A, n) \cup predecessors(A, n) : n \in current_layer}
         IN k_hop(A, neighbors \cup next_layer, next_layer, k - 1)

\* each account's edges last inserted first
RECURSIVE subgraph_edges_reversed(_, _, _)
subgraph_edges_reversed(A, neighbors, n) ==
    IF n >= num_users THEN << >>
    ELSE (IF n \in neighbors
          THEN LET out == SelectSeq(A[n], LAMBDA e : e.to \in neighbors)
               IN [i \in DOMAIN out |-> <<n, out[Len(out) + 1 - i]>>]
          ELSE << >>)
         \o subgraph_edges_reversed(A, neighbors, n + 1)

\* every edge a visited account sends, wherever it goes
RECURSIVE subgraph_edges_out(_, _, _)
subgraph_edges_out(A, neighbors, n) ==
    IF n >= num_users THEN << >>
    ELSE (IF n \in neighbors
          THEN [i \in DOMAIN A[n] |-> <<n, A[n][i]>>]
          ELSE << >>)
         \o subgraph_edges_out(A, neighbors, n + 1)

\* self.graph.subgraph(neighbors).edges(data=True): the edges whose two ends
\* are both in neighbors, node by node, each node's in adjacency order
RECURSIVE subgraph_edges(_, _, _)
subgraph_edges(A, neighbors, n) ==
    IF n >= num_users THEN << >>
    ELSE (IF n \in neighbors
          THEN [i \in 1 .. Len(SelectSeq(A[n], LAMBDA e : e.to \in neighbors)) |->
                   <<n, SelectSeq(A[n], LAMBDA e : e.to \in neighbors)[i]>>]
          ELSE << >>)
         \o subgraph_edges(A, neighbors, n + 1)

\* self.graph.subgraph(neighbors): the adjacency restricted to neighbors
subgraph(A, neighbors) ==
    [n \in neighbors |-> SelectSeq(A[n], LAMBDA e : e.to \in neighbors)]

\* the simple paths that extend p through accounts greater than its first
RECURSIVE cycle_paths(_, _)
cycle_paths(G, p) ==
    {p} \cup UNION {cycle_paths(G, Append(p, v)) :
                      v \in {w \in successors(G, p[Len(p)]) :
                                w > p[1] /\ w \notin Range(p)}}

\* all_cycles = list(nx.simple_cycles(subgraph)): every elementary circuit
\* once, found by search along the edges; a self-loop is a circuit of one
\* account.  Here each circuit starts at its smallest account; the account
\* networkx starts it at and the order of the circuits are chosen when the
\* list is made (cycle_lists).
all_cycles(G) ==
    {p \in UNION {cycle_paths(G, <<s>>) : s \in DOMAIN G} :
        HasEdge(G, p[Len(p)], p[1])}

\* the cycle read from another of its accounts on
Rotations(c) ==
    {[i \in 1 .. Len(c) |-> c[((i - 1 + r) % Len(c)) + 1]] : r \in 0 .. (Len(c) - 1)}

\* the lists that hold each cycle of C once
cycle_lists(C) ==
    {l \in [1 .. Cardinality(C) -> UNION {Rotations(c) : c \in C}] :
        \E order \in Samples(C, Cardinality(C)) :
           \A i \in 1 .. Cardinality(C) : l[i] \in Rotations(order[i])}

\* every cycle of the subgraph, the node in it or not
find_cycles_unfiltered(G, node_id) == all_cycles(G)

\* _find_cycles_involving_node: [cycle for cycle in all_cycles if node_id in
\* cycle].  (The except branch returns [] when nx.simple_cycles raises; on a
\* DiGraph view it does not.)
find_cycles_involving_node(G, node_id) ==
    {c \in all_cycles(G) : node_id \in Range(c)}

\* a line of the text get_k_hop_subgraph returns: what kind of line it is,
\* the accounts it names and the transaction attributes it prints.  The
\* fraud_prob printed next to an account comes from self.fraud_scores, the
\* classifier's output, and is not part of the graph.
NoEdge == Edge(NoUser, 0, <<0, 0>>, NoAttr, 0, NoAttr)

Line(kind, nodes, e) == [kind |-> kind, nodes |-> nodes, edge |-> e]

\* the four output.append of an edge: both accounts, Amount, Type, Timestamp
\* and, for is_fraud_edge == 1, FLAGGED AS FRAUD EDGE; pattern is not printed
edge_lines(edges) ==
    [i \in DOMAIN edges |->
        Line("edge", <<edges[i][1], edges[i][2].to>>,
             [edges[i][2] EXCEPT !.pattern = NoAttr])]

\* the path with its first account repeated at the end
cycle_str_closed(cycle) == Append(cycle, cycle[1])

\* " -> ".join([f"User {node}" for node in cycle])
cycle_str(cycle) == cycle

\* the text of a report: header, size, the transaction list and, if cycles:,
\* the CYCLIC PATTERNS DETECTED section with one line per cycle
format_report(user_id, k, neighbors, edges, cycles) ==
    << Line("header", <<k, user_id>>, NoEdge),
       Line("total", <<Cardinality(neighbors)>>, NoEdge),
       Line("connections", << >>, NoEdge) >>
    \o edge_lines(edges)
    \o (IF cycles # << >>
        THEN << Line("alert", << >>, NoEdge) >>
             \o [i \in DOMAIN cycles |-> Line("cycle", cycle_str(cycles[i]), NoEdge)]
        ELSE << >>)

\* The search without its except clause taking effect: what the enumeration
\* had found is returned although it raised
except_ignored(raised, found) ==
    found

\* try: ... except: return [] -- the lists the search can return
except_empty(raised, found) ==
    IF raised THEN {<< >>} ELSE found

\* the unknown id taken for an account without transactions
not_found_ignored(user_id, k) ==
    [Call("get_k_hop_subgraph", <<user_id, k>>, << >>, << >>, {}, "")
       EXCEPT !.neighbors = {user_id},
              !.report = format_report(user_id, k, {user_id}, << >>, << >>)]

\* return f"User {user_id} not found in graph."
not_found(user_id, k) ==
    [Call("get_k_hop_subgraph", <<user_id, k>>, << >>, << >>, {}, "not_found")
       EXCEPT !.report = << Line("not_found", <<user_id>>, NoEdge) >>]

get_k_hop_subgraph(user_id, k) ==
    /\ Built
    /\ UNCHANGED services
    /\ UNCHANGED <<cls, num_users, fraud_ring_size, budget, node_attr, adj,
                   fraud_users, calls>>
    /\ IF user_id \notin DOMAIN node_attr
       THEN last' = not_found(user_id, k)
       ELSE LET neighbors == k_hop(adj, {user_id}, {user_id}, k)
                edges == subgraph_edges(adj, neighbors, 0)
            IN \E raised \in {FALSE, faults} :
               \E cycles \in except_empty(raised,
                                 cycle_lists(find_cycles_involving_node(
                                                 subgraph(adj, neighbors), user_id))) :
                 last' = [Call("get_k_hop_subgraph", <<user_id, k>>, << >>,
                               << >>, {}, "")
                            EXCEPT !.neighbors = neighbors,
                                   !.raised = raised,
                                   !.edges = edges,
                                   !.cycles = cycles,
                                   !.report = format_report(user_id, k, neighbors,
                                                            edges, cycles)]

\* get_user_info writing the label it reports back into the graph
get_user_info_labelling(user_id) ==
    /\ Built /\ user_id \in DOMAIN node_attr
    /\ node_attr' = [node_attr EXCEPT ![user_id].is_fraud = 1 - @]
    /\ last' = Call("get_user_info", <<user_id>>, << >>, << >>, {}, "")
    /\ UNCHANGED <<cls, num_users, fraud_ring_size, adj, fraud_users, calls,
                   budget, services>>

\* get_user_info: the profile of an account -- its GNN fraud probability and
\* its true label (account_age_days and risk_score_initial are not modelled)
get_user_info(user_id) ==
    /\ Built
    /\ UNCHANGED <<generator, services>>
    /\ IF user_id \notin DOMAIN node_attr
       THEN last' = [Call("get_user_info", <<user_id>>, << >>, << >>, {},
                          "not_found")
                       EXCEPT !.report = << Line("not_found", <<user_id>>, NoEdge) >>]
       ELSE last' = [Call("get_user_info", <<user_id>>, << >>, << >>, {}, "")
                       EXCEPT !.report =
                           << Line("profile",
                                   <<user_id, fraud_probability[user_id + 1],
                                     node_attr[user_id].is_fraud>>, NoEdge) >>]

----------------------------------------------------------------------------
(* Module state of the API process as its modules are imported *)

\* token_blacklist = set(); no log line, no cache entry; agent = None,
\* fraud_scores = None; nothing in app.state
Imported ==
    /\ token_blacklist = {}
    /\ issued = {}
    /\ utcnow = 0
    /\ audit_log = << >>
    /\ signed_log = << >>
    /\ fallback_cache = [k \in {} |-> ""]
    /\ agent = None
    /\ fraud_scores = None
    /\ app_state = [graph_data |-> None, fraud_agent |-> None, start_time |-> None]

\* a process without a generator: the graph variables stay as constructed
NoGenerator == Constructed(Enhanced, 0, 0, 0)

----------------------------------------------------------------------------
(* audit_logger.py: signed log entries *)

\* SECRET_KEY of audit_logger.py and of audit_reports.py: both read the
\* environment variable JWT_SECRET_KEY
AuditKey == "JWT_SECRET_KEY"

\* the keys of a log entry in the order json.dumps(..., sort_keys=True)
\* writes them
SortedKeys ==
    <<"action", "details", "environment", "event_type", "status", "timestamp",
      "user_id", "version">>

Keys(pairs) == {pairs[i][1] : i \in DOMAIN pairs}

\* json.loads of a JSON object: the dictionary key -> value
json_loads(pairs) ==
    [k \in Keys(pairs) |->
        pairs[CHOOSE i \in DOMAIN pairs :
                 /\ pairs[i][1] = k
                 /\ \A j \in DOMAIN pairs : pairs[j][1] = k => j <= i][2]]

\* json.dumps(entry, sort_keys=True): the items in the order of their keys
json_dumps_sorted(entry) ==
    LET present == SelectSeq(SortedKeys, LAMBDA k : k \in DOMAIN entry)
    IN [i \in DOMAIN present |-> <<present[i], entry[present[i]]>>]

\* hmac.new(key, msg, hashlib.sha256).hexdigest(): a hexadecimal string that
\* stands for its key and message (no two inputs share a digest)
hmac(key, msg) == [kind |-> "hex", key |-> key, msg |-> msg]

\* _sign_entry
sign_entry(entry) == hmac(AuditKey, json_dumps_sorted(entry))

\* log_entry = {...}: the dictionary of log_event in insertion order
log_entry(event_type, user_id, action, details, status) ==
    << <<"version", "1.0">>, <<"timestamp", utcnow>>,
       <<"event_type", event_type>>,
       <<"user_id", IF user_id = None THEN "system" ELSE user_id>>,
       <<"action", action>>, <<"status", status>>, <<"details", details>>,
       <<"environment", "development">> >>

\* self.logger.info(json.dumps(log_entry)): one line of audit.jsonl
Line_of(pairs) == [json |-> "object", pairs |-> pairs]

\* log_event: the log with the signed entry appended
log_event(log, event_type, user_id, action, details, status) ==
    LET entry == log_entry(event_type, user_id, action, details, status)
    IN Append(log, Line_of(Append(entry,
                      <<"signature", sign_entry(json_loads(entry))>>)))

----------------------------------------------------------------------------
(* auth.py: JSON web tokens *)

AccessExpireMinutes == 30        \* ACCESS_TOKEN_EXPIRE_MINUTES
RefreshExpireMinutes == 10080    \* REFRESH_TOKEN_EXPIRE_DAYS = 7

\* DEMO_USERS, the password in place of its bcrypt hash
DEMO_USERS ==
    [email \in {"demo@sentinal.ai", "admin@sentinal.ai"} |->
        [id |-> IF email = "demo@sentinal.ai" THEN "demo_user_001"
                ELSE "admin_user_001",
         email |-> email,
         password |-> IF email = "demo@sentinal.ai" THEN "demo123"
                      ELSE "admin123"]]

\* authenticate_user: the user, or nothing (None)
authenticate_user(email, password) ==
    IF email \notin DOMAIN DEMO_USERS THEN {}
    ELSE IF password # DEMO_USERS[email].password THEN {}
    ELSE {DEMO_USERS[email]}

\* jwt.encode(to_encode, key, algorithm=ALGORITHM): the claims under the
\* signature of the key
jwt_encode(sub, email, exp, type, key) ==
    [key |-> key, sub |-> sub, email |-> email, exp |-> exp, type |-> type]

create_access_token(sub, email) ==
    jwt_encode(sub, email, utcnow + AccessExpireMinutes, NoAttr, "SECRET_KEY")

create_refresh_token(sub) ==
    jwt_encode(sub, NoAttr, utcnow + RefreshExpireMinutes, "refresh",
               "REFRESH_SECRET_KEY")

\* a string that is no token of this API ("invalid-token")
InvalidToken == jwt_encode(None, NoAttr, 0, NoAttr, "none")

\* jwt.decode(token, key, algorithms=[ALGORITHM]): the signature is checked
\* first, then the exp claim (expired when exp <= now)
jwt_decode(token, key) ==
    IF token.key # key THEN "PyJWTError"
    ELSE IF token.exp <= utcnow THEN "ExpiredSignatureError"
    ELSE "payload"

Unauthorized(detail) == [status |-> 401, detail |-> detail, user |-> None]

Authenticated(user) == [status |-> 200, detail |-> "", user |-> user]

\* verify_token: decode with SECRET_KEY, read the subject
verify_token(token) ==
    LET decoded == jwt_decode(token, "SECRET_KEY")
    IN IF decoded = "ExpiredSignatureError" THEN Unauthorized("Token has expired")
       ELSE IF decoded = "PyJWTError"
            THEN Unauthorized("Could not validate credentials")
       ELSE IF token.sub = None
            THEN Unauthorized("Invalid authentication credentials")
       ELSE Authenticated(token.sub)

\* get_current_user
get_current_user(token) == verify_token(token)

\* verify_refresh_token: decode with REFRESH_SECRET_KEY, check the type, the
\* subject and the blacklist
verify_refresh_token(token) ==
    LET decoded == jwt_decode(token, "REFRESH_SECRET_KEY")
    IN IF decoded = "ExpiredSignatureError"
       THEN Unauthorized("Refresh token has expired")
       ELSE IF decoded = "PyJWTError"
            THEN Unauthorized("Could not validate refresh token")
       ELSE IF token.type # "refresh" THEN Unauthorized("Invalid token type")
       ELSE IF token.sub = None THEN Unauthorized("Invalid refresh token")
       ELSE IF token \in token_blacklist
            THEN Unauthorized("Token has been revoked")
       ELSE Authenticated(token.sub)

\* blacklist_token
blacklist_token(token) == token_blacklist \cup {token}

----------------------------------------------------------------------------
(* api.py: the authentication endpoints.  The rate limiter is not modelled:
   the clients stay below RATE_LIMIT requests per minute. *)

\* the log of a run holds MaxLog lines, the clients MaxIssued tokens: a
\* request that would write one more is not made
Logging == Len(audit_log) < MaxLog

\* the JSON response of a handler, or of the HTTPException it raised
Response(op, args, status, detail) ==
    [Call(op, args, << >>, << >>, {}, "")
       EXCEPT !.status = status, !.detail = detail]

\* the bearer tokens a client can send
Bearers == issued \cup {InvalidToken}

\* the clock of the process moves on
tick(minutes) ==
    /\ utcnow < AccessExpireMinutes * MaxTicks
    /\ utcnow' = utcnow + minutes
    /\ last' = Call("tick", <<minutes>>, << >>, << >>, {}, "")
    /\ UNCHANGED <<generator, faults, fraud_probability, token_blacklist, issued,
                   audit, fallback_cache, api>>

\* POST /api/auth/login
login(email, password) ==
    /\ UNCHANGED <<generator, faults, fraud_probability, token_blacklist, utcnow,
                   fallback_cache, api>>
    /\ LET user == authenticate_user(email, password)
       IN IF user = {}
          THEN /\ last' = Response("login", <<email, password>>, 401,
                                   "Incorrect email or password")
               /\ UNCHANGED <<issued, audit>>
          ELSE \E u \in user :
               LET access_token == create_access_token(u.id, u.email)
                   refresh_token == create_refresh_token(u.id)
                   log == log_event(audit_log, "USER_LOGIN", u.id, "login",
                                    << <<"email", u.email>> >>, "SUCCESS")
               IN /\ Logging /\ Cardinality(issued) + 2 <= MaxIssued
                  /\ issued' = issued \cup {access_token, refresh_token}
                  /\ audit_log' = log
                  /\ signed_log' = Append(signed_log, log[Len(log)])
                  /\ last' = [Response("login", <<email, password>>, 200, "")
                                EXCEPT !.ret = <<access_token, refresh_token>>,
                                       !.user = u.id]

\* POST /api/auth/refresh
refresh_token_endpoint(token) ==
    /\ UNCHANGED <<generator, faults, fraud_probability, token_blacklist, utcnow,
                   audit, fallback_cache, api>>
    /\ LET verified == verify_refresh_token(token)
       IN IF verified.status # 200
          THEN /\ last' = Response("refresh_token_endpoint", <<token>>,
                                   verified.status, verified.detail)
               /\ UNCHANGED issued
          ELSE LET access_token == create_access_token(verified.user, NoAttr)
                   new_refresh_token == create_refresh_token(verified.user)
               IN /\ Cardinality(issued) + 2 <= MaxIssued
                  /\ issued' = issued \cup {access_token, new_refresh_token}
                  /\ last' = [Response("refresh_token_endpoint", <<token>>, 200, "")
                                EXCEPT !.ret = <<access_token, new_refresh_token>>,
                                       !.user = verified.user]

\* POST /api/auth/logout with Authorization: Bearer token
logout(token) ==
    /\ UNCHANGED <<generator, faults, fraud_probability, issued, utcnow,
                   fallback_cache, api>>
    /\ LET current_user == get_current_user(token)
       IN IF current_user.status # 200
          THEN /\ last' = Response("logout", <<token>>, current_user.status,
                                   current_user.detail)
               /\ UNCHANGED <<token_blacklist, audit>>
          ELSE LET log == log_event(audit_log, "USER_LOGOUT", current_user.user,
                                    "logout", << >>, "SUCCESS")
               IN /\ Logging
                  /\ token_blacklist' = blacklist_token(token)
                  /\ audit_log' = log
                  /\ signed_log' = Append(signed_log, log[Len(log)])
                  /\ last' = [Response("logout", <<token>>, 200,
                                       "Successfully logged out")
                                EXCEPT !.user = current_user.user]

----------------------------------------------------------------------------
(* api.py: startup and the analysis endpoints *)

DefaultTTL == 3600               \* CacheManager.set: ttl: int = 3600
MaxUserId == 99                  \* AnalyzeRequest.user_id: le=99
FraudThreshold == 800            \* is_fraud = score > 0.8, scores per mille

\* startup_event: load_data() and FraudExplainerAgent() return or raise.
\* `agent = FraudExplainerAgent()` binds a name local to startup_event (the
\* function has no global statement); the object is kept in app.state.
startup_event ==
    /\ app_state.start_time = None
    /\ \E loaded \in BOOLEAN, initialised \in BOOLEAN :
         /\ app_state' = [graph_data |-> IF loaded THEN "graph_data" ELSE None,
                          fraud_agent |-> IF initialised THEN "FraudExplainerAgent"
                                          ELSE app_state.fraud_agent,
                          start_time |-> "time.time()"]
         /\ last' = Call("startup_event", << >>, <<loaded, initialised>>, << >>,
                         {}, "")
    /\ UNCHANGED <<generator, faults, fraud_probability, auth, audit,
                   fallback_cache, agent, fraud_scores>>

\* the body the two analysis handlers share: availability, validation of
\* user_id, the score, the explanation (agent.explain, or the fallback text
\* when it raises), the audit entry
analyze(op, args, user_id, requester) ==
    IF agent = None \/ fraud_scores = None
    THEN /\ last' = Response(op, args, 503,
                 "Service temporarily unavailable. AI system not connected.")
         /\ UNCHANGED audit
    ELSE IF user_id < 0 \/ user_id > MaxUserId
    THEN /\ last' = Response(op, args, 400, "Invalid user_id")
         /\ UNCHANGED audit
    ELSE IF user_id >= Len(fraud_scores)
    THEN /\ last' = Response(op, args, 404, "User ID not found in dataset")
         /\ UNCHANGED audit
    ELSE \E explained \in BOOLEAN :
         LET score == fraud_scores[user_id + 1]
             is_fraud == score > FraudThreshold
             reason == IF is_fraud THEN "Suspicious cyclic topology detected"
                       ELSE "Normal transaction patterns"
             log == log_event(audit_log, "FRAUD_ANALYSIS", requester, op,
                              << <<"target_user_id", user_id>>, <<"score", score>>,
                                 <<"is_fraud", is_fraud>>, <<"reason", reason>> >>,
                              "SUCCESS")
         IN /\ Logging
            /\ audit_log' = log
            /\ signed_log' = Append(signed_log, log[Len(log)])
            /\ last' = [Response(op, args, 200, "")
                          EXCEPT !.ret = <<user_id, score, is_fraud, reason,
                                           IF explained THEN "agent.explain"
                                           ELSE "AI explanation unavailable">>,
                                 !.user = requester]

\* GET /analyze/{user_id}
analyze_user_public(user_id) ==
    /\ UNCHANGED <<generator, faults, fraud_probability, auth, fallback_cache, api>>
    /\ analyze("analyze_user_public", <<user_id>>, user_id, "public_demo")

\* GET /api/analyze/{user_id} with Authorization: Bearer token
analyze_user_authenticated(token, user_id) ==
    /\ UNCHANGED <<generator, faults, fraud_probability, auth, fallback_cache, api>>
    /\ LET current_user == get_current_user(token)
       IN IF current_user.status # 200
          THEN /\ last' = Response("analyze_user_authenticated", <<token, user_id>>,
                                   current_user.status, current_user.detail)
               /\ UNCHANGED audit
          ELSE analyze("analyze_user_authenticated", <<token, user_id>>, user_id,
                       current_user.user)

----------------------------------------------------------------------------
(* cache_manager.py: CacheManager in in-memory mode (redis_client is None).
   A key or a pattern is the sequence of its characters. *)

\* str.startswith
startswith(s, prefix) ==
    /\ Len(prefix) <= Len(s)
    /\ \A i \in DOMAIN prefix : s[i] = prefix[i]

\* pattern.replace("*", "")
replace_star(pattern) == SelectSeq(pattern, LAMBDA c : c # "*")

\* the dictionary without some of its keys
without(cache, keys) == [k \in DOMAIN cache \ keys |-> cache[k]]

\* get as the Redis branch answers: None for a value that is empty
get_truthy(cache, key) ==
    IF key \in DOMAIN cache /\ cache[key] # "" THEN cache[key] ELSE None

\* self.fallback_cache.get(key)
dict_get(cache, key) ==
    IF key \in DOMAIN cache THEN cache[key] ELSE None

\* CacheManager.get
get(key) ==
    /\ last' = [Call("get", <<key>>, << >>, << >>, {}, "")
                  EXCEPT !.ret = dict_get(fallback_cache, key)]
    /\ UNCHANGED <<generator, faults, fraud_probability, auth, audit,
                   fallback_cache, api>>

\* CacheManager.set: the dictionary has no TTL
set(key, value, ttl) ==
    /\ key \in DOMAIN fallback_cache \/ Cardinality(DOMAIN fallback_cache) < MaxEntries
    /\ fallback_cache' = [k \in DOMAIN fallback_cache \cup {key} |->
                             IF k = key THEN value ELSE fallback_cache[k]]
    /\ last' = Call("set", <<key, value, ttl>>, << >>, << >>, {}, "")
    /\ UNCHANGED <<generator, faults, fraud_probability, auth, audit, api>>

\* CacheManager.delete: self.fallback_cache.pop(key, None)
delete(key) ==
    /\ fallback_cache' = without(fallback_cache, {key})
    /\ last' = Call("delete", <<key>>, << >>, << >>, {}, "")
    /\ UNCHANGED <<generator, faults, fraud_probability, auth, audit, api>>

\* CacheManager.clear_pattern: every key that starts with the pattern
\* stripped of its stars
clear_pattern(pattern) ==
    /\ LET prefix == replace_star(pattern)
           keys_to_delete == {k \in DOMAIN fallback_cache : startswith(k, prefix)}
       IN /\ fallback_cache' = without(fallback_cache, keys_to_delete)
          /\ last' = [Call("clear_pattern", <<pattern>>, << >>, << >>, {}, "")
                        EXCEPT !.marked = keys_to_delete]
    /\ UNCHANGED <<generator, faults, fraud_probability, auth, audit, api>>

----------------------------------------------------------------------------
(* audit_reports.py: LogVerifier, and the edits of the log file it is to
   detect *)

\* verify_signature: "True", "False", or the TypeError hmac.compare_digest
\* raises for a signature that is no ASCII string
verify_signature(entry) ==
    IF "signature" \notin DOMAIN entry THEN "False"
    ELSE LET signature == entry["signature"]
             expected == hmac(AuditKey,
                              json_dumps_sorted(without(entry, {"signature"})))
         IN IF signature.kind # "hex" THEN "TypeError"
            ELSE IF signature = expected THEN "True" ELSE "False"

\* the loop of scan_logs over the lines of one file.  An exception other
\* than JSONDecodeError leaves the loop: the outer except records
\* "Error reading" and the rest of the file is not read.
RECURSIVE scan_file(_, _, _)
scan_file(lines, i, results) ==
    IF i > Len(lines) THEN results
    ELSE IF lines[i].json = "blank" THEN scan_file(lines, i + 1, results)
    ELSE LET counted == [results EXCEPT !.total = @ + 1]
             tampered == [counted EXCEPT !.tampered = @ + 1]
         IN IF lines[i].json = "corrupt"
            THEN scan_file(lines, i + 1,
                           [tampered EXCEPT !.errors = Append(@, "Corrupt JSON")])
            ELSE IF lines[i].json = "number"
            THEN \* "signature" not in 42 raises TypeError
                 [counted EXCEPT !.errors = Append(@, "Error reading")]
            ELSE IF lines[i].json = "list"
            THEN \* verify_signature([]) is False, [].get raises AttributeError
                 [tampered EXCEPT !.errors = Append(@, "Error reading")]
            ELSE LET verdict == verify_signature(json_loads(lines[i].pairs))
                 IN IF verdict = "TypeError"
                    THEN [counted EXCEPT !.errors = Append(@, "Error reading")]
                    ELSE IF verdict = "True"
                    THEN scan_file(lines, i + 1, [counted EXCEPT !.valid = @ + 1])
                    ELSE scan_file(lines, i + 1,
                                   [tampered EXCEPT
                                       !.errors = Append(@, "Tampered entry")])

\* LogVerifier.scan_logs
scan_logs ==
    /\ last' = [Call("scan_logs", << >>, << >>, << >>, {}, "")
                  EXCEPT !.ret = scan_file(audit_log, 1,
                                           [total |-> 0, valid |-> 0,
                                            tampered |-> 0, errors |-> << >>])]
    /\ UNCHANGED <<generator, faults, fraud_probability, auth, audit,
                   fallback_cache, api>>

\* log_audit_event(event_type, **kwargs)
log_audit_event(event_type, user_id, action, details, status) ==
    /\ Logging
    /\ audit_log' = log_event(audit_log, event_type, user_id, action, details,
                              status)
    /\ signed_log' = Append(signed_log, audit_log'[Len(audit_log')])
    /\ last' = Call("log_audit_event", <<event_type, user_id, action, status>>,
                    << >>, << >>, {}, "")
    /\ UNCHANGED <<generator, faults, fraud_probability, auth, fallback_cache, api>>

\* the value of a key replaced in the text of an object
replaced(pairs, key, value) ==
    [i \in DOMAIN pairs |->
        IF pairs[i][1] = key THEN <<key, value>> ELSE pairs[i]]

Reverse(s) == [i \in DOMAIN s |-> s[Len(s) + 1 - i]]

\* what somebody with write access to audit.jsonl, and without the key, can
\* make of a line: a field changed, the keys reordered, the signature
\* replaced by another digest, by a JSON number or taken out, the line
\* replaced by text that is no JSON, by JSON that is no object, or emptied
Alterations ==
    {"status", "reorder", "signature_forged", "signature_number",
     "signature_dropped", "corrupt", "number", "list", "blank"}

altered(line, how) ==
    IF how = "status"
    THEN Line_of(replaced(line.pairs, "status", "TAMPERED"))
    ELSE IF how = "reorder" THEN Line_of(Reverse(line.pairs))
    ELSE IF how = "signature_forged"
    THEN Line_of(replaced(line.pairs, "signature",
                          hmac("guessed key",
                               json_dumps_sorted(json_loads(line.pairs)))))
    ELSE IF how = "signature_number"
    THEN Line_of(replaced(line.pairs, "signature",
                          [kind |-> "number", key |-> "", msg |-> << >>]))
    ELSE IF how = "signature_dropped"
    THEN Line_of(SelectSeq(line.pairs, LAMBDA p : p[1] # "signature"))
    ELSE [json |-> how, pairs |-> << >>]

tamper(i, how) ==
    /\ i \in DOMAIN audit_log
    /\ audit_log[i] = signed_log[i]
    /\ audit_log' = [audit_log EXCEPT ![i] = altered(@, how)]
    /\ last' = Call("tamper", <<i, how>>, << >>, << >>, {}, "")
    /\ UNCHANGED <<generator, faults, fraud_probability, auth, signed_log,
                   fallback_cache, api>>

----------------------------------------------------------------------------
(* Specifications *)

\* A process that only builds and queries a graph: no library call fails
Offline ==
    /\ faults = FALSE
    /\ fraud_probability = << >>
    /\ Imported

\* Pattern injection: an EnhancedFinancialGraphGenerator and a sequence of
\* injector calls chosen by the caller
Init ==
    /\ Constructed(Enhanced, NumUsers, 0, MaxCalls)
    /\ Offline

Next ==
    \/ generate_user_features
    \/ \E n \in 1 .. (num_users + 1) : inject_cyclic_ring(n)
    \/ \E s \in Users \cup {NoUser}, n \in 1 .. MaxTargets :
          inject_fanout_pattern(s, n)
    \/ \E u \in Users \cup {NoUser}, n \in 1 .. MaxCount :
          inject_rapidfire_pattern(u, n)
    \/ \E h \in Users \cup {NoUser}, ns \in 1 .. MaxTargets, nt \in 1 .. MaxTargets :
          inject_scatter_gather_pattern(h, ns, nt)

Spec == Init /\ [][Next]_vars

\* The same calls on a generator small enough for its pool to run out
InitPool ==
    /\ Constructed(Enhanced, PoolUsers, 0, MaxCalls)
    /\ Offline

SpecPool == InitPool /\ [][Next]_vars

\* Rings: either generator and its ring injector
Generators(n) ==
    \E c \in {Base, Enhanced} :
    \E r \in (IF c = Base THEN 1 .. (n + 1) ELSE {0}) :
        Constructed(c, n, r, MaxCalls)

InitRing ==
    /\ Generators(RingUsers)
    /\ Offline

NextRing ==
    \/ generate_user_features
    \/ inject_fraud_ring
    \/ \E n \in 1 .. (num_users + 1) : inject_cyclic_ring(n)

SpecRing == InitRing /\ [][NextRing]_vars

\* Queries: the graphs the ring injectors build, and get_k_hop_subgraph on
\* every user id and one id that is no user
InitQuery ==
    /\ Generators(QueryUsers)
    /\ Offline

NextQuery ==
    \/ NextRing
    \/ \E u \in Users \cup {num_users}, k \in 0 .. MaxK : get_k_hop_subgraph(u, k)

SpecQuery == InitQuery /\ [][NextQuery]_vars

\* Bursts: an enhanced generator and two rapid-fire calls, on an account the
\* injector picks or one the caller names
InitBurst ==
    /\ Constructed(Enhanced, TopologyUsers, 0, 2)
    /\ Offline

NextBurst ==
    \/ generate_user_features
    \/ \E u \in Users \cup {NoUser}, n \in 1 .. MaxCount :
          inject_rapidfire_pattern(u, n)

SpecBurst == InitBurst /\ [][NextBurst]_vars

\* Topology: the graphs two calls of an enhanced generator build, rings and
\* rapid-fire bursts of one or two transactions, and a query on the finished
\* graph.  A query changes
\* nothing that a later call reads, so a run ends with its query.
InitTopology ==
    /\ Constructed(Enhanced, TopologyUsers, 0, 2)
    /\ Offline

Building == last.op # "get_k_hop_subgraph"

NextTopology ==
    \/ Building /\ generate_user_features
    \/ Building /\ \E n \in 1 .. num_users : inject_cyclic_ring(n)
    \/ Building /\ \E n \in 1 .. 2 : inject_rapidfire_pattern(NoUser, n)
    \/ Building /\ \E u \in Users, k \in 0 .. MaxK : get_k_hop_subgraph(u, k)

SpecTopology == InitTopology /\ [][NextTopology]_vars

\* The ring of main(): either generator, its one ring of MainRingSize
\* accounts and a query on the finished graph
InitScenario ==
    /\ \E c \in {Base, Enhanced} :
          Constructed(c, ScenarioUsers, IF c = Base THEN MainRingSize ELSE 0, 1)
    /\ Offline

NextScenario ==
    \/ Building /\ generate_user_features
    \/ Building /\ inject_fraud_ring
    \/ Building /\ inject_cyclic_ring(MainRingSize)
    \/ Building /\ \E u \in Users \cup {num_users}, k \in 0 .. ScenarioK :
                      get_k_hop_subgraph(u, k)

SpecScenario == InitScenario /\ [][NextScenario]_vars

\* Degraded search: the ring graphs of an enhanced generator, queried in a
\* process where nx.simple_cycles can raise
InitDegrade ==
    /\ Constructed(Enhanced, QueryUsers, 0, 1)
    /\ faults = TRUE
    /\ fraud_probability = << >>
    /\ Imported

NextDegrade ==
    \/ Building /\ generate_user_features
    \/ Building /\ \E n \in 1 .. num_users : inject_cyclic_ring(n)
    \/ Building /\ \E u \in Users \cup {num_users}, k \in 0 .. MaxK :
                      get_k_hop_subgraph(u, k)

SpecDegrade == InitDegrade /\ [][NextDegrade]_vars

\* The API process: startup, the authentication endpoints, the analysis
\* endpoints and the passing of time
InitApi ==
    /\ NoGenerator
    /\ faults = FALSE
    /\ fraud_probability = << >>
    /\ Imported

Emails == DOMAIN DEMO_USERS \cup {"nobody@sentinal.ai"}

Passwords == {"demo123", "admin123"}

UserIds == {-1, 0, MaxUserId + 1}

NextApi ==
    \/ startup_event
    \/ \E minutes \in {AccessExpireMinutes, RefreshExpireMinutes} : tick(minutes)
    \/ \E email \in Emails, password \in Passwords : login(email, password)
    \/ \E token \in Bearers : refresh_token_endpoint(token)
    \/ \E token \in Bearers : logout(token)
    \/ \E user_id \in UserIds : analyze_user_public(user_id)
    \/ \E token \in Bearers, user_id \in UserIds :
          analyze_user_authenticated(token, user_id)

SpecApi == InitApi /\ [][NextApi]_vars

\* The cache: a CacheManager without Redis, the keys of its tests and some
\* that share their ends, glob patterns with the star last, first, alone,
\* inside and absent
CacheKeys ==
    { <<"f", ":", "1">>, <<"f", ":", "2">>, <<"o">>, <<":", "1">>,
      <<"o", ":", "1">> }

CachePatterns ==
    { <<"f", ":", "*">>, <<"*", ":", "1">>, <<"*">>, <<"f", "*", "1">>, <<"o">> }

CacheValues == {"", "value 1", "value 2"}

InitCache ==
    /\ NoGenerator
    /\ faults = FALSE
    /\ fraud_probability = << >>
    /\ Imported

NextCache ==
    \/ \E key \in CacheKeys : get(key)
    \/ \E key \in CacheKeys, value \in CacheValues : set(key, value, DefaultTTL)
    \/ \E key \in CacheKeys : delete(key)
    \/ \E pattern \in CachePatterns : clear_pattern(pattern)

SpecCache == InitCache /\ [][NextCache]_vars

\* The audit trail: events logged by the process, edits of the file, and
\* the integrity scan
InitAudit ==
    /\ NoGenerator
    /\ faults = FALSE
    /\ fraud_probability = << >>
    /\ Imported

NextAudit ==
    \/ \E user_id \in {None, "demo_user_001"}, status \in {"SUCCESS", "ERROR"} :
          log_audit_event("FRAUD_ANALYSIS", user_id, "analyze_user", << >>, status)
    \/ \E i \in DOMAIN audit_log, how \in Alterations : tamper(i, how)
    \/ scan_logs

SpecAudit == InitAudit /\ [][NextAudit]_vars

\* Readers: a ring graph, the fraud scores of its accounts (one of them
\* scored high, in thousandths), and any number of queries one after
\* another once the graph is built
InitReaders ==
    /\ Constructed(Enhanced, QueryUsers, 0, 1)
    /\ faults = FALSE
    /\ fraud_probability \in
          {[i \in 1 .. QueryUsers |-> IF i = h THEN 900 ELSE 100] :
              h \in 1 .. QueryUsers}
    /\ Imported

Frozen == last.op \in {"get_user_info", "get_k_hop_subgraph"}

NextReaders ==
    \/ ~Frozen /\ generate_user_features
    \/ ~Frozen /\ \E n \in 1 .. num_users : inject_cyclic_ring(n)
    \/ \E u \in Users \cup {num_users} : get_user_info(u)
    \/ \E u \in Users \cup {num_users}, k \in 0 .. MaxK : get_k_hop_subgraph(u, k)

SpecReaders == InitReaders /\ [][NextReaders]_vars

\* Scatter-gather: an enhanced generator and one scatter-gather call, the
\* hub picked or named, one or more sources and targets
InitScatter ==
    /\ Constructed(Enhanced, ScatterUsers, 0, 1)
    /\ Offline

NextScatter ==
    \/ generate_user_features
    \/ \E h \in Users \cup {NoUser}, ns \in 1 .. MaxCount, nt \in 1 .. MaxCount :
          inject_scatter_gather_pattern(h, ns, nt)

SpecScatter == InitScatter /\ [][NextScatter]_vars

\* A build: an enhanced generator and two calls, rings, rapid-fire bursts
\* and normal traffic of one transaction, in any order
InitBuild ==
    /\ Constructed(Enhanced, TopologyUsers, 0, 2)
    /\ Offline

NextBuild ==
    \/ generate_user_features
    \/ \E n \in 1 .. num_users : inject_cyclic_ring(n)
    \/ \E n \in 1 .. 2 : inject_rapidfire_pattern(NoUser, n)
    \/ generate_normal_transactions(1)

SpecBuild == InitBuild /\ [][NextBuild]_vars

\* Fan-out: an enhanced generator and one fan-out call, the source picked or
\* named, over as many targets as the pool can hold
InitFanout ==
    /\ Constructed(Enhanced, FanoutUsers, 0, 1)
    /\ Offline

NextFanout ==
    \/ generate_user_features
    \/ \E s \in Users \cup {NoUser}, n \in 1 .. (num_users - 1) :
          inject_fanout_pattern(s, n)

SpecFanout == InitFanout /\ [][NextFanout]_vars

\* Normal traffic: either generator and the one call of
\* generate_normal_transactions its build sequence makes
InitNormal ==
    /\ \E c \in {Base, Enhanced} : Constructed(c, NormalUsers, 0, 1)
    /\ Offline

NextNormal ==
    \/ generate_user_features
    \/ \E n \in 1 .. MaxCount : generate_normal_transactions(n)

SpecNormal == InitNormal /\ [][NextNormal]_vars

----------------------------------------------------------------------------
(* Vocabulary of the properties *)

InjectorOps ==
    {"inject_cyclic_ring", "inject_fanout_pattern",
     "inject_rapidfire_pattern", "inject_scatter_gather_pattern"}

RingOps == {"inject_cyclic_ring", "inject_fraud_ring"}

\* the step is a call of one of ops that returned normally with a result
Succeeded(ops) ==
    calls' = calls + 1 /\ last'.op \in ops /\ last'.ret # << >>

\* the accounts marked fraudulent in the graph
Fraudulent(NA) == {u \in DOMAIN NA : NA[u].is_fraud = 1}

\* the (from, to) pairs that carry a transaction
Pairs(A) == {<<x[1], x[2].to>> : x \in EdgeSet(A)}

\* the edge from u to v
EdgeOf(A, u, v) == CHOOSE e \in Range(A[u]) : e.to = v

----------------------------------------------------------------------------
\* C1: the sets of accounts marked fraudulent by distinct injection calls
\* are pairwise disjoint: no injector call marks an account that an earlier
\* call of the same run marked already.
C1_DisjointMarks ==
    [][(calls' = calls + 1 /\ last'.op \in InjectorOps)
         => last'.marked \cap Fraudulent(node_attr) = {}]_vars

----------------------------------------------------------------------------
\* C2: an injector call whose request the pool of unused accounts cannot
\* satisfy fails (the warning and the empty result), and a failed call
\* leaves every node attribute, every transaction and the set of claimed
\* fraud accounts as they were.

\* the number of unused accounts a call asks for
Requested(op, args) ==
    CASE op = "inject_cyclic_ring" -> args[1]
      [] op = "inject_fanout_pattern" -> args[2] + 1
      [] op = "inject_rapidfire_pattern" -> 1
      [] op = "inject_scatter_gather_pattern" -> args[2] + args[3] + 1

C2_AllOrNothing ==
    [][(calls' = calls + 1 /\ last'.op \in InjectorOps)
         => /\ Cardinality(available_users) < Requested(last'.op, last'.args)
                 => last'.err = "not_enough_users"
            /\ last'.err = "not_enough_users"
                 => /\ last'.ret = << >>
                    /\ node_attr' = node_attr
                    /\ adj' = adj
                    /\ fraud_users' = fraud_users]_vars

\* a ring was refused on a graph that already holds a pattern
C2_Witness ==
    /\ last.op = "inject_cyclic_ring"
    /\ last.err = "not_enough_users"
    /\ fraud_users # {}
    /\ number_of_edges(adj) > 0

----------------------------------------------------------------------------
(* Cycles *)

\* nx.simple_cycles(G): the elementary circuits of the graph, each one once
\* (here from its smallest account on); a self-loop is a cycle of length one
simple_cycles(A) ==
    UNION {{c \in Samples(DOMAIN A, n) :
              /\ \A i \in 2 .. n : c[1] < c[i]
              /\ \A i \in 1 .. n : HasEdge(A, c[i], c[(i % n) + 1])}
           : n \in 1 .. Cardinality(DOMAIN A)}

\* c lists the members of ring in ring order, from some member on
Rotation(c, ring) ==
    /\ Len(c) = Len(ring)
    /\ \E r \in 0 .. (Len(ring) - 1) :
          \A i \in 1 .. Len(ring) : c[i] = ring[((i - 1 + r) % Len(ring)) + 1]

\* the last call injected a ring and the graph holds the ring's
\* transactions only
OnlyRing ==
    /\ last.op \in RingOps
    /\ last.ret # << >>
    /\ number_of_edges(adj) = Len(last.ret)

----------------------------------------------------------------------------
\* C3: after a ring of size n is injected into a graph that holds no other
\* transaction, the graph has exactly one simple directed cycle; it visits
\* the n ring members, each once, in ring order a0 -> a1 -> ... -> a0.
C3_RingOneCycle ==
    OnlyRing =>
        /\ Cardinality(simple_cycles(adj)) = 1
        /\ \A c \in simple_cycles(adj) :
              /\ Range(c) = Range(last.ret)
              /\ Rotation(c, last.ret)

\* a ring of three or more members alone in the graph
C3_Witness == OnlyRing /\ Len(last.ret) >= 3

----------------------------------------------------------------------------
\* C4: for a ring with base amount 1000 the transaction of ring step i
\* carries the amount 1000 * 0.95^i, and exactly `size` accounts are marked.

\* the transaction of ring step i of the ring the last call injected
RingStep(i) == EdgeOf(adj, last.ret[i + 1], ring_to_user(last.ret, i))

\* amount (in cents) is the value num/den (in units), to the cent
ExactCents(amount, num, den) ==
    LET g == GCD(100, den)
    IN amount * (den \div g) = num * (100 \div g)

\* amount (in cents) is within half a cent of the value num/den (in units)
NearestCents(amount, num, den) ==
    LET g == GCD(100, den)
        d == den \div g
        diff == amount * d - num * (100 \div g)
    IN 2 * diff <= d /\ 2 * (0 - diff) <= d

\* exactly the members of the ring are marked, `size` of them
RingMarked ==
    /\ last.marked = Range(last.ret)
    /\ Cardinality(last.marked) = Len(last.ret)
    /\ cls = Enhanced => Cardinality(last.marked) = last.args[1]
    /\ cls = Base => Cardinality(last.marked) = fraud_ring_size
    /\ \A u \in last.marked :
          /\ node_attr[u].is_fraud = 1
          /\ cls = Enhanced => node_attr[u].fraud_pattern = "cyclic_ring"
    /\ calls = 1 => Fraudulent(node_attr) = last.marked

\* C4 as stated: the amounts are the exact powers 1000, 950, 902.5, 857.375,
\* 814.50625
C4_ExactAmounts ==
    (last.op \in RingOps /\ last.ret # << >>) =>
        /\ \A i \in 0 .. (Len(last.ret) - 1) :
              ExactCents(RingStep(i).amount, ring_value(i)[1], ring_value(i)[2])
        /\ RingMarked

\* C4 amended: the amount of step i is 1000 * 0.95^i rounded to cents (1000,
\* 950, 902.5, 857.37, 814.51 for the first five steps), and exactly `size`
\* accounts are marked (cyclic_ring in the enhanced generator).
C4_RoundedAmounts ==
    (last.op \in RingOps /\ last.ret # << >>) =>
        /\ \A i \in 0 .. (Len(last.ret) - 1) :
              /\ NearestCents(RingStep(i).amount, ring_value(i)[1], ring_value(i)[2])
              /\ i < 5 => RingStep(i).amount =
                             <<100000, 95000, 90250, 85737, 81451>>[i + 1]
        /\ RingMarked

\* a ring long enough for a step whose exact amount has a fraction of a cent
C4_Witness ==
    /\ last.op \in RingOps
    /\ Len(last.ret) >= 4
    /\ RingStep(3).amount = 85737

----------------------------------------------------------------------------
\* C5: a fan-out call marks only its source: every target of the call has
\* the is_fraud and fraud_pattern after the call that it had before it,
\* whether the injector picked the source or the caller supplied it.
C5_FanoutTargetsUnmarked ==
    [][Succeeded({"inject_fanout_pattern"})
         => \A i \in 2 .. Len(last'.ret) :
               node_attr'[last'.ret[i]] = node_attr[last'.ret[i]]]_vars

----------------------------------------------------------------------------
\* C6: in every successful scatter-gather call the hub, the sources and the
\* targets are pairwise disjoint and all unused by earlier patterns, and the
\* hub is the only account whose is_fraud / fraud_pattern the call changes.

\* return sources + [hub_user] + targets, taken apart again
SGSources(l) == {l.ret[i] : i \in 1 .. l.args[2]}
SGHub(l) == l.ret[l.args[2] + 1]
SGTargets(l) == {l.ret[i] : i \in (l.args[2] + 2) .. Len(l.ret)}

C6_ScatterGatherDisjoint ==
    [][Succeeded({"inject_scatter_gather_pattern"})
         => /\ SGHub(last') \notin SGSources(last') \cup SGTargets(last')
            /\ SGSources(last') \cap SGTargets(last') = {}
            /\ ({SGHub(last')} \cup SGSources(last') \cup SGTargets(last'))
                  \subseteq available_users
            /\ node_attr'[SGHub(last')] =
                  [is_fraud |-> 1, fraud_pattern |-> "scatter_gather_hub"]
            /\ \A u \in Users \ {SGHub(last')} : node_attr'[u] = node_attr[u]]_vars

----------------------------------------------------------------------------
(* Normal traffic *)

NormalCall == calls' = calls + 1 /\ last'.op = "generate_normal_transactions"

\* the draws of a call whose two endpoints collided / did not collide
Collisions(l) == {i \in DOMAIN l.draws : l.draws[i].from_user = l.draws[i].to_user}
Distinct(l) == DOMAIN l.draws \ Collisions(l)

\* the transactions normal traffic made: is_fraud_edge=0
NormalEdges(A) == {x \in EdgeSet(A) : x[2].is_fraud_edge = 0}

----------------------------------------------------------------------------
\* C8: no transaction of the normal-traffic generator is a self-loop,
\* whatever the count and the draws.
C8_NoSelfLoops == \A x \in NormalEdges(adj) : x[1] # x[2].to

\* a call that drew a colliding pair, and a transaction next to it
C8_Witness ==
    /\ last.op = "generate_normal_transactions"
    /\ Collisions(last) # {}
    /\ NormalEdges(adj) # {}

----------------------------------------------------------------------------
\* C9: every normal-traffic transaction has an amount in [10, 5000],
\* whatever the log-normal draw: a lower value is raised to 10, a higher one
\* lowered to 5000.
C9_AmountClamped ==
    /\ \A x \in NormalEdges(adj) :
          x[2].amount >= 10 * 100 /\ x[2].amount <= 5000 * 100
    /\ last.op = "generate_normal_transactions" =>
          \A i \in Distinct(last) :
             LET d == last.draws[i]
                 e == EdgeOf(adj, d.from_user, d.to_user)
             IN \/ \E j \in Distinct(last) :
                      /\ j > i
                      /\ last.draws[j].from_user = d.from_user
                      /\ last.draws[j].to_user = d.to_user
                \/ /\ d.attr.lognormal < 10 * 1000 => e.amount = 10 * 100
                   /\ d.attr.lognormal > 5000 * 1000 => e.amount = 5000 * 100

\* a draw below 10 and a draw above 5000, each one a transaction
C9_Witness ==
    /\ \E x \in NormalEdges(adj) : x[2].amount = 10 * 100
    /\ \E x \in NormalEdges(adj) : x[2].amount = 5000 * 100
    /\ \E i \in Distinct(last) : last.draws[i].attr.lognormal < 10 * 1000
    /\ \E i \in Distinct(last) : last.draws[i].attr.lognormal > 5000 * 1000

----------------------------------------------------------------------------
(* Neighbourhood extraction *)

ZeroHop == last.op = "get_k_hop_subgraph" /\ last.err = "" /\ last.args[2] = 0

\* C10 as stated: for every known account seed of a built graph,
\* get_k_hop_subgraph(seed, 0) has the node set {seed} and no transaction.
C10_ZeroHopEmpty ==
    ZeroHop => last.neighbors = {last.args[1]} /\ last.edges = << >>

\* C10 amended: for every known account seed of a built graph,
\* get_k_hop_subgraph(seed, 0) has the node set {seed} and the transactions
\* of the subgraph induced by {seed}: the seed's transaction to itself when
\* it has one (a ring of size 1 makes one), none otherwise.
C10_ZeroHopInduced ==
    ZeroHop =>
        LET seed == last.args[1]
        IN /\ last.neighbors = {seed}
           /\ last.edges = IF <<seed, seed>> \in Pairs(adj)
                           THEN << <<seed, EdgeOf(adj, seed, seed)>> >>
                           ELSE << >>

\* a zero-hop query on a seed that has neighbours, and one on a seed that
\* transacts to itself
C10_Witness ==
    /\ ZeroHop
    /\ \/ successors(adj, last.args[1]) \ {last.args[1]} # {}
       \/ Len(last.edges) = 1

----------------------------------------------------------------------------
\* the last call was a query of a known account that returned its subgraph
Extracted == last.op = "get_k_hop_subgraph" /\ last.err = ""

\* C11: for every known seed and every k >= 0 the node set visited by
\* get_k_hop_subgraph(seed, k) is a subset of the node set visited with
\* k + 1 (and, for k > 0, contains the one visited with k - 1), on every
\* graph built.
C11_Monotone ==
    Extracted =>
        LET seed == last.args[1]
            k == last.args[2]
        IN /\ last.neighbors \subseteq k_hop(adj, {seed}, {seed}, k + 1)
           /\ k > 0 => k_hop(adj, {seed}, {seed}, k - 1) \subseteq last.neighbors

\* a query whose seed is not in the last layer: one more round visits more
\* accounts, none of them the seed
C11_Witness ==
    /\ Extracted
    /\ last.args[2] = 1
    /\ Cardinality(last.neighbors) = 2
    /\ Cardinality(k_hop(adj, {last.args[1]}, {last.args[1]}, 2)) = 3

----------------------------------------------------------------------------
\* the transactions of the graph with both ends among the accounts S
Induced(A, S) == {x \in EdgeSet(A) : x[1] \in S /\ x[2].to \in S}

\* C12: the subgraph get_k_hop_subgraph(seed, k) returns is the subgraph
\* induced by the visited set: every transaction of the graph with both ends
\* visited, each once, also those the search did not walk along, and no
\* transaction with an end outside the set.
C12_InducedSubgraph ==
    Extracted =>
        /\ Range(last.edges) = Induced(adj, last.neighbors)
        /\ Len(last.edges) = Cardinality(Induced(adj, last.neighbors))

\* a transaction between two accounts of the first layer, neither the seed
C12_Witness ==
    /\ Extracted
    /\ last.args[2] = 1
    /\ \E i \in DOMAIN last.edges :
          last.edges[i][1] # last.args[1] /\ last.edges[i][2].to # last.args[1]

----------------------------------------------------------------------------
\* C13: get_k_hop_subgraph on an id that is no account of the graph returns
\* the not-found message and nothing else (no subgraph, no cycles), and the
\* graph is as it was; on an account of the graph it does not.
C13_NotFound ==
    [][last'.op = "get_k_hop_subgraph"
         => /\ graph' = graph /\ fraud_users' = fraud_users
            /\ (last'.args[1] \notin DOMAIN node_attr) <=> (last'.err = "not_found")
            /\ last'.err = "not_found"
                 => /\ last'.neighbors = {}
                    /\ last'.edges = << >>
                    /\ last'.cycles = << >>
                    /\ last'.report = << Line("not_found", <<last'.args[1]>>, NoEdge) >>]_vars

\* the id after the last account, asked of a graph that holds a ring
C13_Witness ==
    /\ last.op = "get_k_hop_subgraph"
    /\ last.err = "not_found"
    /\ last.args[1] = num_users
    /\ number_of_edges(adj) > 0

----------------------------------------------------------------------------
\* C14: in a graph whose only transactions are those of a ring of 5, the
\* k = 2 extraction around any ring member holds all 5 ring accounts, and the
\* cycles found for the member are exactly one, of length 5.
C14_RingOfFive ==
    (/\ Extracted
     /\ last.args[2] = 2
     /\ Cardinality(Fraudulent(node_attr)) = 5
     /\ number_of_edges(adj) = 5
     /\ last.args[1] \in Fraudulent(node_attr))
    => /\ Fraudulent(node_attr) \subseteq last.neighbors
       /\ Len(last.cycles) = 1
       /\ Len(last.cycles[1]) = 5
       /\ Range(last.cycles[1]) = Fraudulent(node_attr)

\* the query around a ring member, the cycle read from another member on
C14_Witness ==
    /\ Extracted
    /\ last.args[2] = 2
    /\ Cardinality(Fraudulent(node_attr)) = 5
    /\ last.args[1] \in Fraudulent(node_attr)
    /\ Len(last.cycles) = 1
    /\ last.cycles[1][1] # last.args[1]

----------------------------------------------------------------------------
\* c is a simple directed cycle of G read from one of its accounts on: no
\* account twice, a transaction from each account to the next and from the
\* last to the first
IsCycle(G, c) ==
    /\ Len(c) >= 1
    /\ Range(c) \subseteq DOMAIN G
    /\ Cardinality(Range(c)) = Len(c)
    /\ \A i \in 1 .. Len(c) : HasEdge(G, c[i], c[(i % Len(c)) + 1])

\* the simple directed cycles of G through focus, each read from focus on
CyclesFrom(G, focus) ==
    {c \in UNION {{<<focus>> \o r : r \in Samples(DOMAIN G \ {focus}, n)} :
                    n \in 0 .. (Cardinality(DOMAIN G) - 1)} :
        IsCycle(G, c)}

\* C15: the cycles found for a focus account in a subgraph are empty when
\* the subgraph is acyclic, and otherwise exactly the simple directed cycles
\* of the subgraph through the focus: each one returned contains the focus
\* and repeats no account, and each simple cycle through the focus is
\* returned, once.
C15_CyclesThroughFocus ==
    Extracted =>
        LET G == subgraph(adj, last.neighbors)
            focus == last.args[1]
            through == CyclesFrom(G, focus)
        IN /\ last.cycles # << >> => simple_cycles(G) # {}
           /\ \A i \in DOMAIN last.cycles :
                 focus \in Range(last.cycles[i]) /\ IsCycle(G, last.cycles[i])
           /\ \A c \in through :
                 Cardinality({i \in DOMAIN last.cycles :
                                 last.cycles[i] \in Rotations(c)}) = 1
           /\ Len(last.cycles) = Cardinality(through)

\* a subgraph with a cycle that does not pass through the focus
C15_Witness ==
    /\ Extracted
    /\ last.cycles = << >>
    /\ simple_cycles(subgraph(adj, last.neighbors)) # {}

----------------------------------------------------------------------------
\* the insertion-ordered destinations of a node
Dests(out) == [i \in DOMAIN out |-> out[i].to]


----------------------------------------------------------------------------
\* C17: the num_targets transactions of a fan-out call all carry
\* total / num_targets rounded to cents (total is 5000), and their sum is
\* the total within half a cent per target.
C17_FanoutSplit ==
    [][Succeeded({"inject_fanout_pattern"})
         => LET n == last'.args[2]
                source == last'.ret[1]
                amounts == [i \in 1 .. n |->
                              EdgeOf(adj', source, last'.ret[i + 1]).amount]
            IN /\ n >= 1
               /\ Len(last'.ret) = n + 1
               /\ Len(adj'[source]) = Len(adj[source]) + n
               /\ \A i \in 1 .. n :
                     /\ amounts[i] = amounts[1]
                     /\ NearestCents(amounts[i], 5000, n)
               /\ 2 * (n * amounts[1] - 5000 * 100) <= n
               /\ 2 * (5000 * 100 - n * amounts[1]) <= n]_vars

\* three targets: 1666.67 each, a cent more than the total together
C17_Witness ==
    /\ last.op = "inject_fanout_pattern"
    /\ last.ret # << >>
    /\ last.args[2] = 3
    /\ \A i \in DOMAIN adj[last.ret[1]] : adj[last.ret[1]][i].amount = 166667

----------------------------------------------------------------------------
----------------------------------------------------------------------------
\* the lines of a kind in the report of the last query
LinesOf(kind) == SelectSeq(last.report, LAMBDA l : l.kind = kind)

\* the alert section is there exactly when a cycle was found
AlertIffCycles == (LinesOf("alert") # << >>) <=> (last.cycles # << >>)

\* C19 as stated: the report has the cyclic-pattern section exactly when a
\* cycle was found, and each cycle is listed as a path that closes back to
\* its start: the last account listed is the first.
C19_ClosedPaths ==
    Extracted =>
        /\ AlertIffCycles
        /\ \A i \in DOMAIN LinesOf("cycle") :
              LET path == LinesOf("cycle")[i].nodes
              IN path[Len(path)] = path[1]

\* C19 amended: the report has the cyclic-pattern section exactly when a
\* cycle was found; it comes last and lists each cycle found, in the order
\* found, as the accounts of the cycle in cycle order, each account once:
\* the start is not repeated at the end, the transaction from the last
\* account listed back to the first closes the cycle.
C19_OpenPaths ==
    Extracted =>
        /\ AlertIffCycles
        /\ Len(LinesOf("alert")) <= 1
        /\ Len(LinesOf("cycle")) = Len(last.cycles)
        /\ \A i \in DOMAIN last.cycles :
              LET l == last.report[Len(last.report) - Len(last.cycles) + i]
              IN /\ l.kind = "cycle"
                 /\ l.nodes = last.cycles[i]
                 /\ IsCycle(adj, l.nodes)
        /\ last.cycles # << >> =>
              last.report[Len(last.report) - Len(last.cycles)].kind = "alert"

\* a report that lists a cycle of two or more accounts
C19_Witness ==
    /\ Extracted
    /\ LinesOf("alert") # << >>
    /\ \E i \in DOMAIN LinesOf("cycle") : Len(LinesOf("cycle")[i].nodes) >= 2

----------------------------------------------------------------------------
\* the (source, destination) pairs of the transaction lines of the report
Listed == [i \in DOMAIN LinesOf("edge") |-> LinesOf("edge")[i].nodes]

----------------------------------------------------------------------------
(* C21 *)

\* C21: when the cycle enumeration raises inside the search, the search
\* returns the empty list and the query still returns its report -- header,
\* accounts and transactions of the subgraph -- without an alert section and
\* without an error.
C21_DegradesGracefully ==
    (Extracted /\ last.raised) =>
        /\ last.err = ""
        /\ last.cycles = << >>
        /\ LinesOf("alert") = << >> /\ LinesOf("cycle") = << >>
        /\ last.report = format_report(last.args[1], last.args[2], last.neighbors,
                                       subgraph_edges(adj, last.neighbors, 0), << >>)
        /\ Len(last.report) >= 3

\* a raising enumeration on a subgraph that holds a cycle through the seed
\* and whose transactions are still reported
C21_Witness ==
    /\ Extracted /\ last.raised
    /\ find_cycles_involving_node(subgraph(adj, last.neighbors), last.args[1]) # {}
    /\ LinesOf("edge") # << >>

----------------------------------------------------------------------------
(* C22 *)

\* C22: once POST /api/auth/logout has succeeded with bearer token T (T is on
\* the blacklist), a request to a protected endpoint that authenticates with
\* T is rejected with 401.
C22_LogoutInvalidates ==
    (last.op = "analyze_user_authenticated" /\ last.args[1] \in token_blacklist)
        => last.status = 401

----------------------------------------------------------------------------
(* C23, C24 *)

\* C23: in in-memory mode set(key, value) makes the cache hold value under
\* key, delete(key) makes it hold nothing under key, get(key) returns what
\* the cache holds under key -- the value of the most recent set(key, ...) no
\* delete(key) followed, None otherwise -- and none of the three changes
\* what the cache holds under another key.
C23_LastWrite ==
    [][ /\ last'.op = "set" =>
             /\ last'.args[1] \in DOMAIN fallback_cache'
             /\ fallback_cache'[last'.args[1]] = last'.args[2]
        /\ last'.op = "delete" => last'.args[1] \notin DOMAIN fallback_cache'
        /\ last'.op = "get" =>
             /\ fallback_cache' = fallback_cache
             /\ last'.ret = IF last'.args[1] \in DOMAIN fallback_cache
                            THEN fallback_cache[last'.args[1]] ELSE None
        /\ last'.op \in {"get", "set", "delete"} =>
             /\ DOMAIN fallback_cache' \ {last'.args[1]}
                   = DOMAIN fallback_cache \ {last'.args[1]}
             /\ \A k \in DOMAIN fallback_cache \ {last'.args[1]} :
                   fallback_cache'[k] = fallback_cache[k]
      ]_vars

\* get returns a value that is empty, while another key holds another value
C23_Witness ==
    /\ last.op = "get" /\ last.ret = ""
    /\ \E k \in DOMAIN fallback_cache : k # last.args[1] /\ fallback_cache[k] # ""

\* a glob pattern matches a key: a star stands for any characters, every
\* other character for itself
RECURSIVE glob_match(_, _)
glob_match(pattern, key) ==
    IF pattern = << >> THEN key = << >>
    ELSE IF Head(pattern) = "*"
         THEN \/ glob_match(Tail(pattern), key)
              \/ key # << >> /\ glob_match(pattern, Tail(key))
    ELSE /\ key # << >>
         /\ Head(key) = Head(pattern)
         /\ glob_match(Tail(pattern), Tail(key))

\* C24: clear_pattern(pattern) deletes the cached keys that match the glob
\* pattern and leaves every other key, with its value, in the cache.
C24_ClearsMatching ==
    [][ last'.op = "clear_pattern" =>
          fallback_cache' =
              without(fallback_cache,
                      {k \in DOMAIN fallback_cache : glob_match(last'.args[1], k)})
      ]_vars

----------------------------------------------------------------------------
(* C25 *)

\* the lines of the log that still hold the entry log_event signed
Intact ==
    {i \in DOMAIN audit_log :
        /\ audit_log[i].json = "object"
        /\ json_loads(audit_log[i].pairs) = json_loads(signed_log[i].pairs)}

\* the lines scan_logs reads: those that are not empty
Scanned == {i \in DOMAIN audit_log : audit_log[i].json # "blank"}

\* C25: scan_logs counts as valid exactly the entries unchanged since
\* log_event signed them, as tampered every other scanned line (a field
\* altered without recomputing the signature, or a line that is no valid
\* JSON), and total = valid + tampered.
C25_ScanIntegrity ==
    last.op = "scan_logs" =>
        /\ last.ret.valid = Cardinality(Intact)
        /\ last.ret.tampered = Cardinality(Scanned \ Intact)
        /\ last.ret.total = last.ret.valid + last.ret.tampered

----------------------------------------------------------------------------
(* C26 *)

\* the accounts one transaction away from an account of S, in either
\* direction
Adjacent(A, S) ==
    {n \in DOMAIN A : \E m \in S : HasEdge(A, m, n) \/ HasEdge(A, n, m)}

\* the accounts reachable from S by a path of at most k transactions, each
\* traversed in either direction
RECURSIVE Within(_, _, _)
Within(A, S, k) ==
    IF k = 0 THEN S ELSE Within(A, S \cup Adjacent(A, S), k - 1)

\* C26: the visited set of get_k_hop_subgraph(seed, k) is the set of
\* accounts reachable from the seed by a path of at most k transactions,
\* each traversed in either direction, although the next frontier is the
\* whole neighbourhood of the current one and holds visited accounts again.
C26_VisitedIsReachable ==
    Extracted => last.neighbors = Within(adj, {last.args[1]}, last.args[2])

\* two rounds from a ring member: the second frontier holds the seed again
\* and the visited set is larger than after one round
C26_Witness ==
    /\ Extracted /\ last.args[2] = 2
    /\ last.args[1] \in Adjacent(adj, Adjacent(adj, {last.args[1]}))
    /\ Cardinality(last.neighbors) > Cardinality(Within(adj, {last.args[1]}, 1))

----------------------------------------------------------------------------
(* C27 *)

\* C27: get_user_info, get_k_hop_subgraph and its cycle search leave the
\* accounts, their attributes, the transactions and the fraud-score table
\* as they were, and what a query returns is determined by them and its
\* arguments, whatever queries ran before it: queries interleaved in any
\* order return what they return one after another.
C27_QueriesReadOnly ==
    [][ last'.op \in {"get_user_info", "get_k_hop_subgraph"} =>
          /\ graph' = graph
          /\ fraud_probability' = fraud_probability
          /\ fraud_users' = fraud_users
          /\ (last'.op = "get_user_info" /\ last'.err = "") =>
                last'.report[1].nodes =
                    <<last'.args[1], fraud_probability[last'.args[1] + 1],
                      node_attr[last'.args[1]].is_fraud>>
          /\ (last'.op = "get_k_hop_subgraph" /\ last'.err = "") =>
                /\ last'.neighbors = Within(adj, {last'.args[1]}, last'.args[2])
                /\ last'.edges = subgraph_edges(adj, last'.neighbors, 0)
                /\ {Range(last'.cycles[i]) : i \in DOMAIN last'.cycles}
                     = {Range(c) : c \in find_cycles_involving_node(
                                             subgraph(adj, last'.neighbors),
                                             last'.args[1])}
      ]_vars

\* the profile of a ring member, read from the graph the ring was built in
C27_Witness ==
    /\ last.op = "get_user_info" /\ last.err = ""
    /\ last.report[1].nodes[3] = 1
    /\ \E u \in DOMAIN adj : adj[u] # << >>

----------------------------------------------------------------------------
(* C28 *)

\* C28: in a scatter-gather call the gather transaction of the i-th source
\* (source -> hub, scatter_gather_in) is stamped i hours after the reference
\* instant, counting from 0 -- one hour more per source -- and every scatter
\* transaction (hub -> target, scatter_gather_out) of the call is stamped
\* strictly later than every gather transaction of the call.
C28_ScatterAfterGather ==
    [][Succeeded({"inject_scatter_gather_pattern"}) =>
         LET ns == last'.args[2]
             hub == SGHub(last')
         IN /\ \A i \in 1 .. ns :
                 LET e == EdgeOf(adj', last'.ret[i], hub)
                 IN /\ e.pattern = "scatter_gather_in"
                    /\ e.timestamp = <<calls', 3600 * (i - 1)>>
            /\ \A j \in (ns + 2) .. Len(last'.ret) :
                 LET e == EdgeOf(adj', hub, last'.ret[j])
                 IN /\ e.pattern = "scatter_gather_out"
                    /\ e.timestamp[1] = calls'
                    /\ \A i \in 1 .. ns :
                          e.timestamp[2]
                            > EdgeOf(adj', last'.ret[i], hub).timestamp[2]
      ]_vars

\* a call with two sources and two targets
C28_Witness ==
    /\ last.op = "inject_scatter_gather_pattern" /\ last.err = ""
    /\ last.args[2] = 2 /\ last.args[3] = 2
    /\ Len(last.ret) = 5

----------------------------------------------------------------------------
(* C29 *)

\* C29: a transaction created by a fraud injector (is_fraud_edge = 1) stays
\* in the graph through every later call of the build, with its pattern tag,
\* amount and timestamp: no later normal or rapid-fire transaction between
\* the same two accounts replaces it.
C29_EvidenceSurvives ==
    [][ \A u \in DOMAIN adj : \A i \in DOMAIN adj[u] :
          adj[u][i].is_fraud_edge = 1 =>
              /\ HasEdge(adj', u, adj[u][i].to)
              /\ EdgeOf(adj', u, adj[u][i].to) = adj[u][i]
      ]_vars

----------------------------------------------------------------------------
(* C30 *)

====
